---- MODULE Spec2Model ----
(***************************************************************************)
(* sound-play: the playback registry and launcher.                         *)
(*                                                                         *)
(* The modules of the repository are modelled, selected by `variant`:       *)
(*   "ts"        src/src/audio-player.ts   play returns an id              *)
(*   "js"        src/src/index.js:47-166   play returns an id (CommonJS)   *)
(*   "enhanced"  src/unnamed/part_000      play returns {id, finished}     *)
(*   "exec"      src/src/index.js:1-45     async play around exec          *)
(*   "pair"      audio-player.ts with part_000 run beside it on the same   *)
(*               calls, events and generated ids (its registry is `twin`)  *)
(* JavaScript runs every function and every event listener to completion,  *)
(* so each call and each delivered event is one atomic action.             *)
(*                                                                         *)
(* Numbers that are volumes are kept in hundredths (50 is 0.5); doubling   *)
(* is exact in binary floating point, so v*2 is 2*v in hundredths too.     *)
(* Strings that are built from numbers are sequences of one-character      *)
(* strings.                                                                *)
(***************************************************************************)
EXTENDS Integers, Sequences, FiniteSets, TLC

\* ---- bounds of the model ----
MaxProcs == 2      \* processes spawned in one run
NumIds == 2        \* distinct outcomes of crypto.randomBytes(4)
VolGrid == 4       \* the volume grid has VolGrid steps between 0 and 1

Variants == {"ts", "js", "enhanced", "exec", "pair"}
Platforms == {"darwin", "win32"}
Ids == 1..NumIds
\* input volumes in hundredths: the grid over [0,1] and one value above 1
Volumes == {(k * 100) \div VolGrid : k \in 0..(VolGrid + 1)}
\* input paths: a relative path with a single quote in it
FilePaths == {<<"d", "'", "w">>}

VARIABLES
  variant,         \* which module is loaded
  platform,        \* process.platform
  activeChildren,  \* the Map id -> child, in insertion order
  children,        \* every child process spawned so far, by spawn order
  lastCall,        \* the last operation or event, with what its caller saw
  trueStops,       \* per id: how many stop(id) calls have returned true,
                   \*   the calls stopAll makes included
  sinceIssue,      \* per id: the same, counted since play last issued the id
  twin             \* "pair" only: the enhanced module run beside the basic one:
                   \*   its activeChildren, the last return value of its stop,
                   \*   and finished of each of its playbacks

vars == <<variant, platform, activeChildren, children, lastCall, trueStops, sinceIssue, twin>>

\* ---- Map<PlaybackId, ChildProcess> ----
Undefined == 0

MapHas(m, k) == \E i \in 1..Len(m) : m[i].id = k

MapGet(m, k) ==
  IF MapHas(m, k) THEN m[CHOOSE i \in 1..Len(m) : m[i].id = k].child
  ELSE Undefined

MapSet(m, k, v) ==
  IF MapHas(m, k)
  THEN [i \in 1..Len(m) |-> IF m[i].id = k THEN [id |-> k, child |-> v] ELSE m[i]]
  ELSE Append(m, [id |-> k, child |-> v])

MapDelete(m, k) == SelectSeq(m, LAMBDA e : e.id # k)

MapKeys(m) == [i \in 1..Len(m) |-> m[i].id]

\* ---- String(number), for a number given in hundredths ----
Digit(d) == <<"0", "1", "2", "3", "4", "5", "6", "7", "8", "9">>[d + 1]

RECURSIVE IntString(_)
IntString(n) ==
  IF n < 10 THEN <<Digit(n)>> ELSE IntString(n \div 10) \o <<Digit(n % 10)>>

String(h) ==
  LET frac == h % 100
  IN IntString(h \div 100) \o
     (IF frac = 0 THEN <<>>
      ELSE IF frac % 10 = 0 THEN <<".", Digit(frac \div 10)>>
      ELSE <<".", Digit(frac \div 10), Digit(frac % 10)>>)

\* ---- path.resolve and the quote escaping of the script ----
resolve(filePath) == <<"/", "c", "/">> \o filePath

RECURSIVE replaceQuotes(_)
replaceQuotes(s) ==
  IF s = <<>> THEN <<>>
  ELSE (IF Head(s) = "'" THEN <<"'", "'">> ELSE <<Head(s)>>) \o replaceQuotes(Tail(s))

\* ---- command builders ----
macPlayCommand(filePath, volume) ==
  <<"afplay", filePath, "-v", String(volume)>>

windowsPowerShellScript(filePath, volume) ==
  << "Add-Type -AssemblyName presentationCore;",
     "$player = New-Object system.windows.media.mediaplayer;",
     "$player.open('", replaceQuotes(filePath), "');",
     "$player.Volume = ", String(volume), ";",
     "$player.Play();",
     "Start-Sleep -s $player.NaturalDuration.TimeSpan.TotalSeconds;" >>

windowsPlayCommand(filePath, volume) ==
  <<"powershell", "-NoProfile", "-Command", windowsPowerShellScript(filePath, volume)>>

Min(a, b) == IF a < b THEN a ELSE b

\* seeded fault: the macOS volume is passed through unscaled
volForOsUnscaled(volume) == volume

volForOs(volume) ==
  IF platform = "darwin" THEN Min(2 * 100, volume * 2) ELSE volume

buildCommand(filePath, volume) ==
  IF platform = "darwin"
  THEN macPlayCommand(resolve(filePath), volForOs(volume))
  ELSE windowsPlayCommand(resolve(filePath), volForOs(volume))

\* ---- the exec-based command builders of index.js ----
macPlayCommandExec(path, volume, rate) ==
  <<"afplay \"", path, "\" -v ", String(volume), " -r ", String(rate)>>

windowPlayCommand(path, volume) ==
  << "powershell -c ", "Add-Type -AssemblyName presentationCore;",
     "$player = New-Object system.windows.media.mediaplayer;",
     "$player.open('", path, "');",
     "$player.Volume = ", String(volume), ";",
     "$player.Play();",
     "Start-Sleep 1; Start-Sleep -s $player.NaturalDuration.TimeSpan.TotalSeconds;Exit;" >>

\* ---- state after module load ----
NoCall ==
  [op |-> "none", id |-> 0, child |-> 0, ret |-> FALSE, volume |-> 0,
   args |-> <<>>, killed |-> <<>>, attempts |-> <<>>]

Init ==
  /\ variant \in Variants
  /\ platform \in Platforms
  /\ activeChildren = <<>>
  /\ children = <<>>
  /\ lastCall = NoCall
  /\ trueStops = [i \in Ids |-> 0]
  /\ sinceIssue = [i \in Ids |-> 0]
  /\ twin = [reg |-> <<>>, ret |-> FALSE, finished |-> <<>>]

\* a freshly spawned child: no event delivered, no kill() call made
NewChild(id, finished) ==
  [id |-> id, exit |-> FALSE, error |-> FALSE, kills |-> 0, finished |-> finished]

\* ---- src/src/audio-player.ts ----
\* play, from the spawn on: `child` is the handle spawn has just returned
\* seeded fault: play returns the id without having stored it
playUnregistered(reg, filePath, volume, id, child) ==
  [ args |-> buildCommand(filePath, volume),
    reg |-> reg,
    finished |-> "none",
    ret |-> id ]

play(reg, filePath, volume, id, child) ==
  [ args |-> buildCommand(filePath, volume),
    reg |-> MapSet(reg, id, child),
    finished |-> "none",
    ret |-> id ]

\* seeded fault: the observers leave the entry in the map
cleanupKeep(reg, id) == reg

cleanup(reg, id) == MapDelete(reg, id)

\* seeded fault: stop kills the child but leaves the entry in the map
stopKeep(reg, id) ==
  LET child == MapGet(reg, id)
  IN IF child = Undefined
     THEN [ret |-> FALSE, reg |-> reg, killed |-> <<>>]
     ELSE [ret |-> TRUE, reg |-> reg, killed |-> <<child>>]

\* seeded fault: stop removes the entry without signalling the child
stopNoKill(reg, id) ==
  LET child == MapGet(reg, id)
  IN IF child = Undefined
     THEN [ret |-> FALSE, reg |-> reg, killed |-> <<>>]
     ELSE [ret |-> TRUE, reg |-> MapDelete(reg, id), killed |-> <<>>]

\* seeded fault: the lookup guard is missing, stop reports success for any id
stopUnguarded(reg, id) ==
  LET child == MapGet(reg, id)
  IN [ret |-> TRUE, reg |-> MapDelete(reg, id),
      killed |-> IF child = Undefined THEN <<>> ELSE <<child>>]

stop(reg, id) ==
  LET child == MapGet(reg, id)
  IN IF child = Undefined
     THEN [ret |-> FALSE, reg |-> reg, killed |-> <<>>]
     ELSE [ret |-> TRUE, reg |-> MapDelete(reg, id), killed |-> <<child>>]

RECURSIVE stopAllLoop(_, _, _, _)
stopAllLoop(keys, reg, killed, stopped) ==
  IF keys = <<>> THEN [reg |-> reg, killed |-> killed, stopped |-> stopped]
  ELSE LET r == stop(reg, Head(keys))
       IN stopAllLoop(Tail(keys), r.reg, killed \o r.killed,
                      Append(stopped, [id |-> Head(keys), ret |-> r.ret]))

\* seeded fault: the traversal walks the live map by index while stop deletes from
\* it, so every second key is skipped
stopAllLive(reg) ==
  stopAllLoop(SelectSeq(MapKeys(reg), LAMBDA k : \E i \in 1..Len(reg) : reg[i].id = k /\ i % 2 = 1),
              reg, <<>>, <<>>)

stopAll(reg) == stopAllLoop(MapKeys(reg), reg, <<>>, <<>>)

\* ---- src/src/index.js, the spawn-based module ----
playJs(reg, filePath, volume, id, child) ==
  [ args |-> buildCommand(filePath, volume),
    reg |-> MapSet(reg, id, child),
    finished |-> "none",
    ret |-> id ]

\* seeded fault: the exit listener does not clean up
exitListenerJsKeep(reg, id) == reg

exitListenerJs(reg, id) == MapDelete(reg, id)

\* seeded fault: the error listener does not clean up
errorListenerJsKeep(reg, id) == reg

errorListenerJs(reg, id) == MapDelete(reg, id)

\* seeded fault: stop of a registered id signals and removes every entry
stopJsEvery(reg, id) ==
  LET child == MapGet(reg, id)
  IN IF child = Undefined
     THEN [ret |-> FALSE, reg |-> reg, killed |-> <<>>]
     ELSE [ret |-> TRUE, reg |-> <<>>, killed |-> [i \in 1..Len(reg) |-> reg[i].child]]

stopJs(reg, id) ==
  LET child == MapGet(reg, id)
  IN IF child = Undefined
     THEN [ret |-> FALSE, reg |-> reg, killed |-> <<>>]
     ELSE [ret |-> TRUE, reg |-> MapDelete(reg, id), killed |-> <<child>>]

RECURSIVE stopAllLoopJs(_, _, _, _)
stopAllLoopJs(keys, reg, killed, stopped) ==
  IF keys = <<>> THEN [reg |-> reg, killed |-> killed, stopped |-> stopped]
  ELSE LET r == stopJs(reg, Head(keys))
       IN stopAllLoopJs(Tail(keys), r.reg, killed \o r.killed,
                      Append(stopped, [id |-> Head(keys), ret |-> r.ret]))

stopAllJs(reg) == stopAllLoopJs(MapKeys(reg), reg, <<>>, <<>>)

\* ---- src/unnamed/part_000, play returns {id, finished} ----
\* resolving a promise settles it once; a later resolve call does nothing
resolveFinished(finished) == IF finished = "pending" THEN "resolved" ELSE finished

\* seeded fault: the promise is resolved in its executor, before any event
playEnhResolved(reg, filePath, volume, id, child) ==
  [ args |-> buildCommand(filePath, volume),
    reg |-> MapSet(reg, id, child),
    finished |-> "resolved",
    ret |-> id ]

playEnh(reg, filePath, volume, id, child) ==
  [ args |-> buildCommand(filePath, volume),
    reg |-> MapSet(reg, id, child),
    finished |-> "pending",
    ret |-> id ]

\* seeded fault: cleanup forgets to resolve the promise
cleanupEnhSilent(reg, id, finished) ==
  [reg |-> MapDelete(reg, id), finished |-> finished]

\* seeded fault: cleanup guards against a second invocation, so the second
\* event of a process (exit after error) no longer deletes the id
cleanupEnhOnce(reg, id, finished) ==
  IF finished = "pending"
  THEN [reg |-> MapDelete(reg, id), finished |-> "resolved"]
  ELSE [reg |-> reg, finished |-> finished]

\* seeded fault: cleanup resolves the promise but leaves the entry in the map
cleanupEnhKeep(reg, id, finished) ==
  [reg |-> reg, finished |-> resolveFinished(finished)]

cleanupEnh(reg, id, finished) ==
  [reg |-> MapDelete(reg, id), finished |-> resolveFinished(finished)]

\* seeded fault: stop kills the child but leaves the entry in the map
stopEnhKeep(reg, id) ==
  LET child == MapGet(reg, id)
  IN IF child = Undefined
     THEN [ret |-> FALSE, reg |-> reg, killed |-> <<>>]
     ELSE [ret |-> TRUE, reg |-> reg, killed |-> <<child>>]

stopEnh(reg, id) ==
  LET child == MapGet(reg, id)
  IN IF child = Undefined
     THEN [ret |-> FALSE, reg |-> reg, killed |-> <<>>]
     ELSE [ret |-> TRUE, reg |-> MapDelete(reg, id), killed |-> <<child>>]

RECURSIVE stopAllLoopEnh(_, _, _, _)
stopAllLoopEnh(keys, reg, killed, stopped) ==
  IF keys = <<>> THEN [reg |-> reg, killed |-> killed, stopped |-> stopped]
  ELSE LET r == stopEnh(reg, Head(keys))
       IN stopAllLoopEnh(Tail(keys), r.reg, killed \o r.killed,
                      Append(stopped, [id |-> Head(keys), ret |-> r.ret]))

\* seeded fault: the traversal walks the live map by index while stop deletes
\* from it, so every second key is skipped
stopAllEnhLive(reg) ==
  stopAllLoopEnh(SelectSeq(MapKeys(reg),
                           LAMBDA k : \E i \in 1..Len(reg) : reg[i].id = k /\ i % 2 = 1),
                 reg, <<>>, <<>>)

stopAllEnh(reg) == stopAllLoopEnh(MapKeys(reg), reg, <<>>, <<>>)

\* ---- the actions of the three registry modules ----
Registry == {"ts", "js", "enhanced", "pair"}

\* children after kill() has been called on each child of `killed`
Kill(killed) ==
  [c \in 1..Len(children) |->
     IF \E i \in 1..Len(killed) : killed[i] = c
     THEN [children[c] EXCEPT !.kills = @ + Cardinality({i \in 1..Len(killed) : killed[i] = c})]
     ELSE children[c]]

\* play(filePath, volume): spawn, makeId, insert, register the observers, return
Play(filePath, volume) ==
  /\ variant \in Registry
  /\ Len(children) < MaxProcs
  /\ \E id \in Ids :
       LET child == Len(children) + 1
           r == CASE variant \in {"ts", "pair"} -> play(activeChildren, filePath, volume, id, child)
                  [] variant = "js" -> playJs(activeChildren, filePath, volume, id, child)
                  [] variant = "enhanced" -> playEnh(activeChildren, filePath, volume, id, child)
       IN /\ children' = Append(children, NewChild(id, r.finished))
          /\ activeChildren' = r.reg
          /\ lastCall' = [NoCall EXCEPT !.op = "play", !.id = r.ret, !.child = child,
                                        !.volume = volume, !.args = r.args]
          /\ sinceIssue' = [sinceIssue EXCEPT ![id] = 0]
          /\ twin' = IF variant = "pair"
                     THEN LET t == playEnh(twin.reg, filePath, volume, id, child)
                          IN [reg |-> t.reg, ret |-> FALSE,
                              finished |-> Append(twin.finished, t.finished)]
                     ELSE twin
  /\ UNCHANGED <<variant, platform, trueStops>>

\* stop(id), for any id a caller may hold or invent
Stop(id) ==
  /\ variant \in Registry
  /\ LET r == CASE variant \in {"ts", "pair"} -> stop(activeChildren, id)
                [] variant = "js" -> stopJs(activeChildren, id)
                [] variant = "enhanced" -> stopEnh(activeChildren, id)
     IN /\ activeChildren' = r.reg
        /\ children' = Kill(r.killed)
        /\ lastCall' = [NoCall EXCEPT !.op = "stop", !.id = id, !.ret = r.ret,
                                      !.killed = r.killed]
        /\ trueStops' = [trueStops EXCEPT ![id] = IF r.ret THEN @ + 1 ELSE @]
        /\ sinceIssue' = [sinceIssue EXCEPT ![id] = IF r.ret THEN @ + 1 ELSE @]
  /\ twin' = IF variant = "pair"
             THEN LET t == stopEnh(twin.reg, id)
                  IN [twin EXCEPT !.reg = t.reg, !.ret = t.ret]
             ELSE twin
  /\ UNCHANGED <<variant, platform>>

\* how many of the stop calls made by stopAll returned true for id
TrueReturns(stopped, id) ==
  Cardinality({i \in 1..Len(stopped) : stopped[i].id = id /\ stopped[i].ret})

\* stopAll()
StopAll ==
  /\ variant \in Registry
  /\ LET r == CASE variant \in {"ts", "pair"} -> stopAll(activeChildren)
                [] variant = "js" -> stopAllJs(activeChildren)
                [] variant = "enhanced" -> stopAllEnh(activeChildren)
     IN /\ activeChildren' = r.reg
        /\ children' = Kill(r.killed)
        /\ lastCall' = [NoCall EXCEPT !.op = "stopAll", !.killed = r.killed,
                                      !.attempts = r.stopped]
        /\ trueStops' = [id \in Ids |-> trueStops[id] + TrueReturns(r.stopped, id)]
        /\ sinceIssue' = [id \in Ids |-> sinceIssue[id] + TrueReturns(r.stopped, id)]
  /\ twin' = IF variant = "pair"
             THEN [twin EXCEPT !.reg = stopAllEnh(twin.reg).reg, !.ret = FALSE]
             ELSE twin
  /\ UNCHANGED <<variant, platform>>

\* the registry and the completion signal after an observer of child c has run
Observed(c, event) ==
  LET id == children[c].id
      f == children[c].finished
  IN CASE variant \in {"ts", "pair"} -> [reg |-> cleanup(activeChildren, id), finished |-> f]
       [] variant = "js" ->
            [reg |-> IF event = "exit" THEN exitListenerJs(activeChildren, id)
                     ELSE errorListenerJs(activeChildren, id),
             finished |-> f]
       [] variant = "enhanced" -> cleanupEnh(activeChildren, id, f)

\* the enhanced module of the pair after the observer of its child c has run
TwinObserved(c) ==
  IF variant = "pair"
  THEN LET t == cleanupEnh(twin.reg, children[c].id, twin.finished[c])
       IN [twin EXCEPT !.reg = t.reg, !.ret = FALSE, !.finished[c] = t.finished]
  ELSE twin

\* the 'exit' event of child c is delivered
Exit(c) ==
  /\ variant \in Registry
  /\ c \in 1..Len(children)
  /\ ~children[c].exit
  /\ LET r == Observed(c, "exit")
     IN /\ activeChildren' = r.reg
        /\ children' = [children EXCEPT ![c].exit = TRUE, ![c].finished = r.finished]
  /\ lastCall' = [NoCall EXCEPT !.op = "exit", !.id = children[c].id, !.child = c]
  /\ twin' = TwinObserved(c)
  /\ UNCHANGED <<variant, platform, trueStops, sinceIssue>>

\* the 'error' event of child c is delivered: the spawn failed, or the
\* process could not be signalled; an 'exit' event may still follow
Error(c) ==
  /\ variant \in Registry
  /\ c \in 1..Len(children)
  /\ ~children[c].error
  /\ ~children[c].exit
  /\ LET r == Observed(c, "error")
     IN /\ activeChildren' = r.reg
        /\ children' = [children EXCEPT ![c].error = TRUE, ![c].finished = r.finished]
  /\ lastCall' = [NoCall EXCEPT !.op = "error", !.id = children[c].id, !.child = c]
  /\ twin' = TwinObserved(c)
  /\ UNCHANGED <<variant, platform, trueStops, sinceIssue>>

\* ---- src/src/index.js, the exec-based module ----
\* async play: the promise it returns is pending while execPromise is awaited
ExecPlay(path, volume) ==
  /\ variant = "exec"
  /\ Len(children) < MaxProcs
  /\ LET volumeAdjustedByOS == IF platform = "darwin" THEN Min(2 * 100, volume * 2) ELSE volume
         playCommand == IF platform = "darwin"
                        THEN macPlayCommandExec(path, volumeAdjustedByOS, 100)
                        ELSE windowPlayCommand(path, volumeAdjustedByOS)
     IN /\ children' = Append(children, NewChild(0, "pending"))
        /\ lastCall' = [NoCall EXCEPT !.op = "play", !.child = Len(children) + 1,
                                      !.volume = volume, !.args = playCommand]
  /\ UNCHANGED <<variant, platform, activeChildren, trueStops, sinceIssue, twin>>

\* the command ended with status 0: execPromise fulfils, play's promise fulfils
ExecDone(c) ==
  /\ variant = "exec"
  /\ c \in 1..Len(children)
  /\ children[c].finished = "pending"
  /\ children' = [children EXCEPT ![c].exit = TRUE, ![c].finished = "resolved"]
  /\ lastCall' = [NoCall EXCEPT !.op = "exit", !.child = c]
  /\ UNCHANGED <<variant, platform, activeChildren, trueStops, sinceIssue, twin>>

\* the command could not be run or failed: execPromise rejects, the catch
\* block rethrows, play's promise rejects
ExecFail(c) ==
  /\ variant = "exec"
  /\ c \in 1..Len(children)
  /\ children[c].finished = "pending"
  /\ children' = [children EXCEPT ![c].error = TRUE, ![c].finished = "rejected"]
  /\ lastCall' = [NoCall EXCEPT !.op = "error", !.child = c]
  /\ UNCHANGED <<variant, platform, activeChildren, trueStops, sinceIssue, twin>>

NextRegistry ==
  \/ \E filePath \in FilePaths, volume \in Volumes : Play(filePath, volume)
  \/ \E id \in Ids : Stop(id)
  \/ StopAll
  \/ \E c \in 1..MaxProcs : Exit(c)
  \/ \E c \in 1..MaxProcs : Error(c)

NextExec ==
  \/ \E path \in FilePaths, volume \in Volumes : ExecPlay(path, volume)
  \/ \E c \in 1..MaxProcs : ExecDone(c)
  \/ \E c \in 1..MaxProcs : ExecFail(c)

Next == NextRegistry \/ NextExec

Spec == Init /\ [][Next]_vars

\* The enhanced module alone, with every spawned process eventually reporting
\* its end: the first event of a child (exit or error) is not withheld forever.
\* The platform only selects the command line, which plays no part in the
\* life of a playback, so one platform is followed.
InitEnhanced == Init /\ variant = "enhanced" /\ platform = "darwin"

FirstEvent(c) ==
  /\ c \in 1..Len(children)
  /\ ~children[c].error
  /\ (Exit(c) \/ Error(c))

FairSpec ==
  /\ InitEnhanced
  /\ [][NextRegistry]_vars
  /\ \A c \in 1..MaxProcs : WF_vars(FirstEvent(c))

\* The two modules whose play returns an id, under the same fairness.
InitBasic == Init /\ variant \in {"ts", "js"} /\ platform = "darwin"

FairSpecBasic ==
  /\ InitBasic
  /\ [][NextRegistry]_vars
  /\ \A c \in 1..MaxProcs : WF_vars(FirstEvent(c))

TypeOK ==
  /\ variant \in Variants
  /\ platform \in Platforms
  /\ Len(children) <= MaxProcs
  /\ \A i \in 1..Len(activeChildren) : activeChildren[i].child \in 1..Len(children)

\* ======================= properties =======================
Spawned == 1..Len(children)

Issued(id) == \E c \in Spawned : children[c].id = id

\* the number (in hundredths) a decimal numeral denotes
RECURSIVE DigitsValue(_)
DigitsValue(s) ==
  IF s = <<>> THEN 0
  ELSE 10 * DigitsValue(SubSeq(s, 1, Len(s) - 1))
       + (CHOOSE d \in 0..9 : Digit(d) = s[Len(s)])

ParseNumber(s) ==
  IF \E i \in 1..Len(s) : s[i] = "."
  THEN LET dot == CHOOSE i \in 1..Len(s) : s[i] = "."
           frac == SubSeq(s, dot + 1, Len(s))
       IN 100 * DigitsValue(SubSeq(s, 1, dot - 1))
          + (IF Len(frac) = 1 THEN 10 * DigitsValue(frac) ELSE DigitsValue(frac))
  ELSE 100 * DigitsValue(s)

\* C1 (as stated): for every id play has issued, once stop(id) has been
\* called, exactly one stop(id) call has returned true.
C1_ExactlyOneTrueStop ==
  (variant \in Registry /\ lastCall.op = "stop" /\ Issued(lastCall.id))
    => trueStops[lastCall.id] = 1

\* C1 (amended): for every id, at most one stop(id) call returns true after a
\* play call has issued the id and before play issues the same id again; every
\* other stop(id) call in between returns false.
C1_AtMostOneTrueStopPerIssue ==
  \A id \in Ids : sinceIssue[id] <= 1

\* C1 witness: stop(id) has returned true and a later stop(id) returned false
C1_Witness ==
  /\ lastCall.op = "stop"
  /\ lastCall.ret = FALSE
  /\ sinceIssue[lastCall.id] = 1

\* C2 (as stated): the id play returns is not a key of the registry at the
\* moment play is called, whatever the random id generator returns.
C2_FreshId ==
  [][(variant \in Registry /\ lastCall'.op = "play")
       => ~MapHas(activeChildren, lastCall'.id)]_vars

\* C3: every key of the registry maps to a spawned process for which neither
\* the exit event nor the error event has been delivered.
C3_RegistryLive ==
  \A i \in 1..Len(activeChildren) :
    LET c == activeChildren[i].child
    IN /\ c \in Spawned
       /\ ~children[c].exit
       /\ ~children[c].error

\* C3 witness: an id whose earlier process has exited is a key again, mapped
\* to a later process
C3_Witness ==
  \E c \in Spawned :
    /\ children[c].exit
    /\ MapHas(activeChildren, children[c].id)

\* C4: in the enhanced module finished never rejects, stays resolved once it
\* is resolved, and is eventually resolved for every spawned process, be it
\* stopped, ended by itself or failed to start.
C4_FinishedResolves ==
  /\ [](\A c \in Spawned : children[c].finished \in {"pending", "resolved"})
  /\ [][\A c \in Spawned : children[c].finished = "resolved"
                             => children'[c].finished = "resolved"]_vars
  /\ \A c \in 1..MaxProcs :
       (c \in Spawned) ~> (c \in Spawned /\ children[c].finished = "resolved")

\* C4 witness: one playback was stopped and resolved on its exit event, another
\* resolved on its error event alone
C4_Witness ==
  /\ variant = "enhanced"
  /\ \E c \in Spawned :
       children[c].kills = 1 /\ children[c].exit /\ children[c].finished = "resolved"
  /\ \E c \in Spawned :
       children[c].error /\ ~children[c].exit /\ children[c].finished = "resolved"

\* C5: stop(id) with id in the registry returns true, calls kill() once on the
\* process mapped to id and on no other, and id is no key when it returns.
C5_StopPresent ==
  [][(variant \in Registry /\ lastCall'.op = "stop"
        /\ MapHas(activeChildren, lastCall'.id))
       => LET id == lastCall'.id
              child == MapGet(activeChildren, id)
          IN /\ lastCall'.ret = TRUE
             /\ lastCall'.killed = <<child>>
             /\ children' = [children EXCEPT ![child].kills = @ + 1]
             /\ activeChildren' = MapDelete(activeChildren, id)
             /\ ~MapHas(activeChildren', id)]_vars

\* C5 witness: stop(id) right after the play that returned id, before any event
C5_Witness ==
  /\ Len(children) = 1
  /\ lastCall.op = "stop"
  /\ lastCall.ret = TRUE
  /\ lastCall.id = children[1].id
  /\ children[1].kills = 1
  /\ ~children[1].exit /\ ~children[1].error
  /\ activeChildren = <<>>

\* C6: stop(id) with id not in the registry returns false, leaves the registry
\* as it is and calls kill() on no process.
C6_StopAbsent ==
  [][(variant \in Registry /\ lastCall'.op = "stop"
        /\ ~MapHas(activeChildren, lastCall'.id))
       => /\ lastCall'.ret = FALSE
          /\ lastCall'.killed = <<>>
          /\ activeChildren' = activeChildren
          /\ children' = children]_vars

\* C6 witness: stop of a never-issued id while another playback is registered
C6_Witness ==
  /\ lastCall.op = "stop"
  /\ lastCall.ret = FALSE
  /\ ~Issued(lastCall.id)
  /\ Len(activeChildren) >= 1

\* C7: when stopAll returns the registry is empty.
C7_StopAllEmpties ==
  lastCall.op = "stopAll" => activeChildren = <<>>

\* C7 witness: stopAll found two entries and stopped both
C7_Witness ==
  /\ lastCall.op = "stopAll"
  /\ Len(lastCall.killed) = 2

\* C8 (as stated): no promise returned by any play variant is ever rejected.
C8_NoRejection ==
  \A c \in Spawned : children[c].finished # "rejected"

\* C8 (amended): in the three spawn-based modules no rejection reaches the
\* caller of play, and an error event does nothing but remove the id from the
\* registry and (enhanced) resolve finished; the exec-based play of index.js
\* rejects its promise when the command fails.
C8_ErrorObserver ==
  [][/\ variant \in Registry =>
          /\ \A c \in 1..Len(children') : children'[c].finished # "rejected"
          /\ lastCall'.op = "error" =>
               LET c == lastCall'.child
               IN /\ activeChildren' = MapDelete(activeChildren, children[c].id)
                  /\ children' = [children EXCEPT
                                    ![c].error = TRUE,
                                    ![c].finished = IF variant = "enhanced"
                                                    THEN "resolved" ELSE @]
                  /\ UNCHANGED <<trueStops, sinceIssue>>
     /\ (variant = "exec" /\ lastCall'.op = "error") =>
          children'[lastCall'.child].finished = "rejected"]_vars

\* C8 witness: a process whose spawn failed while it was registered
C8_Witness ==
  /\ variant = "enhanced"
  /\ lastCall.op = "error"
  /\ children[lastCall.child].finished = "resolved"
  /\ children[lastCall.child].kills = 0
  /\ ~MapHas(activeChildren, lastCall.id)

\* C9: when play returns an id, the id is a key of the registry, mapped to the
\* process this play spawned, and no event of that process has been delivered.
C9_RegisteredOnReturn ==
  (variant \in Registry /\ lastCall.op = "play") =>
    /\ lastCall.child = Len(children)
    /\ children[lastCall.child].id = lastCall.id
    /\ MapGet(activeChildren, lastCall.id) = lastCall.child
    /\ ~children[lastCall.child].exit
    /\ ~children[lastCall.child].error

\* C9 witness: play has returned the second of two registered ids
C9_Witness ==
  /\ variant \in Registry
  /\ lastCall.op = "play"
  /\ Len(activeChildren) = 2

\* C10: for an input volume v in [0,1] the numeral in the macOS command denotes
\* min(2, v*2) and the numeral in the Windows script denotes v.
C10_Volume ==
  (variant \in Registry /\ lastCall.op = "play" /\ lastCall.volume <= 100) =>
    IF platform = "darwin"
    THEN /\ lastCall.args[3] = "-v"
         /\ ParseNumber(lastCall.args[4]) = Min(200, lastCall.volume * 2)
    ELSE /\ lastCall.args[4][6] = "$player.Volume = "
         /\ ParseNumber(lastCall.args[4][7]) = lastCall.volume

\* C10 witness: volume 0.75 on macOS gives "-v 1.5"
C10_Witness ==
  /\ variant \in Registry
  /\ platform = "darwin"
  /\ lastCall.op = "play"
  /\ lastCall.volume = 75
  /\ lastCall.args[4] = <<"1", ".", "5">>

\* the entry (id -> child) is in the map m
HasEntry(m, e) == \E j \in 1..Len(m) : m[j] = e

\* C11 (as stated): an entry (id -> P) leaves the registry only in a stop call
\* on id (stopAll makes one for every key) or in the exit or error event of P;
\* no play call and no event of another process removes or replaces it.
C11_EntryLeavesByStopOrOwnEvent ==
  [][\A i \in 1..Len(activeChildren) :
       LET e == activeChildren[i]
       IN ~HasEntry(activeChildren', e)
            => \/ lastCall'.op = "stop" /\ lastCall'.id = e.id
               \/ lastCall'.op = "stopAll"
               \/ lastCall'.op \in {"exit", "error"} /\ lastCall'.child = e.child]_vars

\* C12: stopAll calls stop once for each id that is a key when stopAll is
\* called, in key order, and for no other id.
C12_StopAllAttempts ==
  [][(variant \in Registry /\ lastCall'.op = "stopAll")
       => /\ [i \in 1..Len(lastCall'.attempts) |-> lastCall'.attempts[i].id]
               = MapKeys(activeChildren)
          /\ \A i \in 1..Len(lastCall'.attempts) : lastCall'.attempts[i].ret]_vars

\* C12 witness: stopAll made two stop calls, for the two ids that were keys,
\* and each of the two processes was signalled once
C12_Witness ==
  /\ lastCall.op = "stopAll"
  /\ Len(lastCall.attempts) = 2
  /\ lastCall.attempts[1].id # lastCall.attempts[2].id
  /\ \A c \in Spawned : children[c].kills = 1

\* some key of the registry maps to child c
Registered(c) == \E i \in 1..Len(activeChildren) : activeChildren[i].child = c

\* C13: when every spawned process eventually delivers an exit or an error
\* event, every entry play inserted is eventually gone from the registry; each
\* delivered event removes the id of its process, and no entry maps to a
\* process whose event has been delivered.
C13_EntriesRemoved ==
  /\ [][lastCall'.op \in {"exit", "error"}
          => ~MapHas(activeChildren', lastCall'.id)]_vars
  /\ [](\A c \in Spawned : (children[c].exit \/ children[c].error) => ~Registered(c))
  /\ \A c \in 1..MaxProcs : (c \in Spawned) ~> ~Registered(c)

\* C13 witness: a playback nobody stopped has left the registry on its exit event
C13_Witness ==
  /\ variant = "js"
  /\ lastCall.op = "exit"
  /\ children[lastCall.child].kills = 0
  /\ ~children[lastCall.child].error
  /\ ~MapHas(activeChildren, lastCall.id)

\* C14: in the enhanced module finished is resolved only once an exit or an
\* error event of its own process has been delivered; play, stop and stopAll
\* leave it pending.
C14_ResolvedOnlyByOwnEvent ==
  variant = "enhanced" =>
    \A c \in Spawned :
      children[c].finished = "resolved" => (children[c].exit \/ children[c].error)

\* C14 witness: stop(id) has returned true and finished of the stopped
\* playback is still pending
C14_Witness ==
  /\ variant = "enhanced"
  /\ lastCall.op = "stop"
  /\ lastCall.ret = TRUE
  /\ \E c \in Spawned :
       /\ lastCall.killed = <<c>>
       /\ children[c].finished = "pending"
       /\ ~children[c].exit /\ ~children[c].error

\* C15 (as stated): every spawned process that has delivered no exit or error
\* event and on which kill() has not been called is the value of a registry key.
C15_RunningIsRegistered ==
  variant \in Registry =>
    \A c \in Spawned :
      (~children[c].exit /\ ~children[c].error /\ children[c].kills = 0)
        => Registered(c)

\* C16: a stop(id) call leaves every registry entry other than that of id as it
\* was, and calls kill() on no process other than the one mapped to id.
C16_StopFrame ==
  [][(variant \in Registry /\ lastCall'.op = "stop")
       => LET id == lastCall'.id
              target == MapGet(activeChildren, id)
          IN /\ MapDelete(activeChildren', id) = MapDelete(activeChildren, id)
             /\ Len(children') = Len(children)
             /\ \A c \in Spawned : c # target => children'[c] = children[c]
             /\ \A i \in 1..Len(lastCall'.killed) : lastCall'.killed[i] = target]_vars

\* C16 witness: stop(id) returned true while another playback was registered,
\* which is still registered and has not been signalled
C16_Witness ==
  /\ lastCall.op = "stop"
  /\ lastCall.ret = TRUE
  /\ Len(activeChildren) = 1
  /\ activeChildren[1].id # lastCall.id
  /\ children[activeChildren[1].child].kills = 0

\* C17: kill() is called at most once on every spawned process.
C17_AtMostOneKill ==
  variant \in Registry => \A c \in Spawned : children[c].kills <= 1

\* C17 witness: stopAll ran after a stop had already signalled one process,
\* and signalled only the other one
C17_Witness ==
  /\ lastCall.op = "stopAll"
  /\ Len(lastCall.killed) = 1
  /\ \E c \in Spawned : c # lastCall.killed[1] /\ children[c].kills = 1
  /\ children[lastCall.killed[1]].kills = 1

\* C18: in the enhanced module no key of the registry maps to a process whose
\* finished has resolved.
C18_ResolvedIsUnregistered ==
  variant = "enhanced" =>
    \A c \in Spawned : children[c].finished = "resolved" => ~Registered(c)

\* C18 witness: finished of a playback nobody stopped resolved on its exit
\* event while another playback stays registered
C18_Witness ==
  /\ variant = "enhanced"
  /\ lastCall.op = "exit"
  /\ children[lastCall.child].finished = "resolved"
  /\ children[lastCall.child].kills = 0
  /\ Len(activeChildren) = 1

\* C19: run side by side on the same calls, events and generated ids, the basic
\* module and the enhanced module have the same registry in every state, and
\* every stop call returns the same value in both.
C19_SameRegistry ==
  variant = "pair" =>
    /\ twin.reg = activeChildren
    /\ lastCall.op = "stop" => twin.ret = lastCall.ret

\* C19 witness: the exit event of a process followed its error event, after a
\* later play had drawn the same id again: the second cleanup took the entry of
\* the later playback out of both registries
C19_Witness ==
  /\ variant = "pair"
  /\ lastCall.op = "exit"
  /\ children[lastCall.child].error
  /\ \E c \in Spawned :
       /\ c # lastCall.child
       /\ children[c].id = lastCall.id
       /\ ~children[c].exit /\ ~children[c].error /\ children[c].kills = 0
       /\ ~Registered(c)
  /\ twin.reg = <<>>

====
